---------------------------- MODULE Spec2Model ----------------------------
(***************************************************************************)
(* A model of lsp-client-rs: the framing client of src/src/client.rs       *)
(* (LspClient::new, send_request, handle_response) together with the       *)
(* message shapes of src/src/protocol.rs that it serialises and parses.    *)
(*                                                                         *)
(* Bytes and characters are one-character strings; byte strings and text   *)
(* are sequences of them, so that framing, header parsing and JSON         *)
(* (de)serialisation are computed character by character as the code does. *)
(***************************************************************************)
EXTENDS Integers, Sequences, FiniteSets, TLC

(***************************************************************************)
(* Text primitives of the Rust standard library used by client.rs.         *)
(***************************************************************************)
CR == "\r"
LF == "\n"
TAB == "\t"
SP == " "

\* A byte that is not valid UTF-8 on its own, and the replacement character
\* String::from_utf8_lossy puts in its place (one token for its three bytes).
BadByte == "xFF"
ReplacementChar == "uFFFD"

\* A Rust String is its UTF-8 bytes, and so is a text of the model: str::len
\* is Len and str::as_bytes changes nothing.  A character outside ASCII is
\* more than one byte; U+00E9 is these two.
EAcute == <<"xC3", "xA9">>

\* str::chars().count(): the bytes of a text that do not continue a character.
CharCount(text) == Cardinality({i \in 1..Len(text) : text[i] # "xA9"})

Digits == <<"0", "1", "2", "3", "4", "5", "6", "7", "8", "9">>

IsDigit(c) == \E i \in 1..10 : Digits[i] = c

DigitVal(c) == (CHOOSE i \in 1..10 : Digits[i] = c) - 1

\* char::is_whitespace on the characters of the model.
IsWhitespace(c) == c \in {SP, TAB, CR, LF}

\* format!("{}", n) for an unsigned integer: decimal digits, no sign, no padding.
RECURSIVE ToDecimal(_)
ToDecimal(n) ==
    IF n < 10 THEN <<Digits[n + 1]>>
    ELSE ToDecimal(n \div 10) \o <<Digits[(n % 10) + 1]>>

\* slice::starts_with / str::starts_with
StartsWith(s, p) == Len(s) >= Len(p) /\ SubSeq(s, 1, Len(p)) = p

\* slice::ends_with
EndsWith(s, p) == Len(s) >= Len(p) /\ SubSeq(s, Len(s) - Len(p) + 1, Len(s)) = p

\* Index of the first occurrence of character c in s, 0 when there is none.
IndexOf(s, c) ==
    IF \E i \in 1..Len(s) : s[i] = c
    THEN CHOOSE i \in 1..Len(s) : s[i] = c /\ \A j \in 1..(i - 1) : s[j] # c
    ELSE 0

\* String::from_utf8_lossy: ASCII is kept, an invalid byte becomes U+FFFD.
FromUtf8Lossy(bytes) ==
    [i \in 1..Len(bytes) |-> IF bytes[i] = BadByte THEN ReplacementChar ELSE bytes[i]]

\* str::lines: split at "\n", drop the "\n" and one "\r" before it; a last
\* piece without "\n" is a line as it stands, an empty last piece is none.
RECURSIVE Lines(_)
Lines(s) ==
    IF s = <<>> THEN <<>>
    ELSE LET k == IndexOf(s, LF) IN
         IF k = 0 THEN <<s>>
         ELSE LET raw == SubSeq(s, 1, k - 1)
                  line == IF EndsWith(raw, <<CR>>) THEN SubSeq(raw, 1, Len(raw) - 1) ELSE raw
              IN <<line>> \o Lines(SubSeq(s, k + 1, Len(s)))

\* A faulty variant of SplitN2: the text is split at its last c (rsplitn).
SplitN2_AtLast(s, c) ==
    IF \A i \in 1..Len(s) : s[i] # c THEN <<s>>
    ELSE LET k == CHOOSE i \in 1..Len(s) : s[i] = c /\ \A j \in (i + 1)..Len(s) : s[j] # c
         IN <<SubSeq(s, 1, k - 1), SubSeq(s, k + 1, Len(s))>>

\* str::splitn(2, c): the text before the first c and the whole text after it,
\* or the text alone when it holds no c.
SplitN2(s, c) ==
    LET k == IndexOf(s, c) IN
    IF k = 0 THEN <<s>>
    ELSE <<SubSeq(s, 1, k - 1), SubSeq(s, k + 1, Len(s))>>

\* str::split(c).next(): the text before the first c, the whole text without one.
SplitFirst(s, c) == SplitN2(s, c)[1]

\* str::trim
RECURSIVE TrimStart(_)
TrimStart(s) ==
    IF s # <<>> /\ IsWhitespace(s[1]) THEN TrimStart(Tail(s)) ELSE s

RECURSIVE TrimEnd(_)
TrimEnd(s) ==
    IF s # <<>> /\ IsWhitespace(s[Len(s)]) THEN TrimEnd(SubSeq(s, 1, Len(s) - 1)) ELSE s

Trim(s) == TrimEnd(TrimStart(s))

RECURSIVE DecimalValue(_)
DecimalValue(ds) ==
    IF ds = <<>> THEN 0
    ELSE 10 * DecimalValue(SubSeq(ds, 1, Len(ds) - 1)) + DigitVal(ds[Len(ds)])

\* A faulty variant of ParseUsize: text that is no number counts as 0.
ParseUsize_DefaultZero(s) ==
    LET ds == IF s # <<>> /\ s[1] = "+" THEN Tail(s) ELSE s IN
    IF ds # <<>> /\ \A i \in 1..Len(ds) : IsDigit(ds[i])
    THEN <<DecimalValue(ds)>>
    ELSE <<0>>

\* str::parse::<usize>: an optional "+", then one or more decimal digits;
\* anything else (empty, "-", a letter, inner blanks) is a ParseIntError.
\* The result is an Option: <<n>> or <<>>.  The lengths of the model stay far
\* below usize::MAX, so the overflow error is not reachable.
ParseUsize(s) ==
    LET ds == IF s # <<>> /\ s[1] = "+" THEN Tail(s) ELSE s IN
    IF ds # <<>> /\ \A i \in 1..Len(ds) : IsDigit(ds[i])
    THEN <<DecimalValue(ds)>>
    ELSE <<>>


(***************************************************************************)
(* serde_json::Value (protocol.rs declares id, params, result and error as *)
(* serde_json::Value).  An object is a map from key to value: serde_json's *)
(* default Map is a BTreeMap, so key order and duplicates do not survive.  *)
(* Numbers are the integers; the bodies of the model hold no fractions.    *)
(***************************************************************************)
Null == [t |-> "null"]
Bool(b) == [t |-> "bool", b |-> b]
Num(n) == [t |-> "num", n |-> n]
Str(s) == [t |-> "str", s |-> s]
Arr(a) == [t |-> "arr", a |-> a]
Obj(m) == [t |-> "obj", m |-> m]

EmptyMap == [k \in {} |-> Null]

\* Option<T>: None is the empty sequence, Some(v) the sequence of v alone.
None == <<>>
Some(v) == <<v>>
IsSome(o) == o # <<>>

\* The printable ASCII characters of the model's strings in code order: the
\* order of BTreeMap keys.
AsciiOrder ==
    <<" ", "!", "\"", "#", "$", "%", "&", "'", "(", ")", "*", "+", ",", "-", ".", "/",
      "0", "1", "2", "3", "4", "5", "6", "7", "8", "9", ":", ";", "<", "=", ">", "?",
      "@", "A", "B", "C", "D", "E", "F", "G", "H", "I", "J", "K", "L", "M", "N", "O",
      "P", "Q", "R", "S", "T", "U", "V", "W", "X", "Y", "Z", "[", "\\", "]", "^", "_",
      "a", "b", "c", "d", "e", "f", "g", "h", "i", "j", "k", "l", "m", "n", "o",
      "p", "q", "r", "s", "t", "u", "v", "w", "x", "y", "z", "{", "|", "}", "~">>

AsciiRank(c) == CHOOSE i \in 1..Len(AsciiOrder) : AsciiOrder[i] = c

\* Ord for String: lexicographic by character code.
KeyLess(a, b) ==
    LET differ == {i \in 1..Len(a) : i <= Len(b) /\ a[i] # b[i]} IN
    IF differ = {} THEN Len(a) < Len(b)
    ELSE LET i == CHOOSE d \in differ : \A o \in differ : d <= o
         IN AsciiRank(a[i]) < AsciiRank(b[i])

\* The keys of a BTreeMap in iteration order.
SortedKeys(S) ==
    [n \in 1..Cardinality(S) |->
        CHOOSE k \in S : Cardinality({x \in S : KeyLess(x, k)}) = n - 1]

(***************************************************************************)
(* serde_json::to_string: the compact writer.                              *)
(***************************************************************************)
Quote == "\""
Backslash == "\\"

\* The escape the writer emits for one character of a string.
EscapeChar(c) ==
    IF c = Quote THEN <<Backslash, Quote>>
    ELSE IF c = Backslash THEN <<Backslash, Backslash>>
    ELSE IF c = LF THEN <<Backslash, "n">>
    ELSE IF c = CR THEN <<Backslash, "r">>
    ELSE IF c = TAB THEN <<Backslash, "t">>
    ELSE <<c>>

\* The escapes of the characters of s, one after the other: the character
\* s[i] goes to the place i plus the number of two-character escapes before
\* it.
EscapeChars(s) ==
    IF \A i \in 1..Len(s) : EscapeChar(s[i]) = <<s[i]>> THEN s
    ELSE LET place(i) == i + Cardinality({k \in 1..(i - 1) : Len(EscapeChar(s[k])) = 2})
             total == place(Len(s)) + Len(EscapeChar(s[Len(s)])) - 1
         IN  [j \in 1..total |->
                LET i == CHOOSE x \in 1..Len(s) :
                            place(x) <= j /\ j < place(x) + Len(EscapeChar(s[x]))
                IN EscapeChar(s[i])[j - place(i) + 1]]

WriteString(s) == <<Quote>> \o EscapeChars(s) \o <<Quote>>

WriteNumber(n) == IF n < 0 THEN <<"-">> \o ToDecimal(0 - n) ELSE ToDecimal(n)

\* serde_json's compact writer: an object as "{", its members "key":value
\* with a comma between two, and "}" (a serde_json::Map keeps its keys
\* sorted), an array as "[", its elements and "]".  WriteMembers and
\* WriteElements write from the n-th member or element on, the opening
\* character before the first and the closing one after the last.
RECURSIVE WriteValue(_), WriteElements(_, _), WriteMembers(_, _, _)
WriteValue(v) ==
    CASE v.t = "null" -> <<"n", "u", "l", "l">>
      [] v.t = "bool" -> IF v.b THEN <<"t", "r", "u", "e">> ELSE <<"f", "a", "l", "s", "e">>
      [] v.t = "num" -> WriteNumber(v.n)
      [] v.t = "str" -> WriteString(v.s)
      [] v.t = "arr" -> WriteElements(v.a, 1)
      [] v.t = "obj" -> WriteMembers(v.m, SortedKeys(DOMAIN v.m), 1)

WriteElements(a, n) ==
    IF n > Len(a) THEN (IF n = 1 THEN <<"[", "]">> ELSE <<"]">>)
    ELSE ((IF n = 1 THEN <<"[">> ELSE <<",">>) \o WriteValue(a[n]))
            \o WriteElements(a, n + 1)

WriteMembers(m, keys, n) ==
    IF n > Len(keys) THEN (IF n = 1 THEN <<"{", "}">> ELSE <<"}">>)
    ELSE ((IF n = 1 THEN <<"{">> ELSE <<",">>) \o WriteString(keys[n]) \o <<":">>
            \o WriteValue(m[keys[n]])) \o WriteMembers(m, keys, n + 1)

(***************************************************************************)
(* serde_json's reader.  A parse result is [ok |-> FALSE] or               *)
(* [ok |-> TRUE, v |-> what was read, i |-> index of the next character].  *)
(***************************************************************************)
Fail == [ok |-> FALSE]

\* The first index at or after i that holds no JSON whitespace.
RECURSIVE SkipWs(_, _)
SkipWs(s, i) ==
    IF i <= Len(s) /\ IsWhitespace(s[i]) THEN SkipWs(s, i + 1) ELSE i

\* The character an escape sequence \c stands for, <<>> when c starts none
\* (the strings of the model hold no \b, \f or \u escapes).
Unescape(c) ==
    IF c \in {Quote, Backslash, "/"} THEN <<c>>
    ELSE IF c = "n" THEN <<LF>>
    ELSE IF c = "r" THEN <<CR>>
    ELSE IF c = "t" THEN <<TAB>>
    ELSE <<>>

\* The characters of a string from index j (after the opening quote) to its
\* closing quote, added to acc; a raw control character or an unknown escape
\* is an error.
\* A character at p stands for itself or starts an escape when the run of
\* backslashes right before it, counted from j on, is even; it is the second
\* character of an escape when that run is odd.
BackslashRun(s, j, p) ==
    LET stop == {i \in j..(p - 1) : s[i] # Backslash}
    IN  IF stop = {} THEN p - j
        ELSE p - 1 - (CHOOSE i \in stop : \A o \in stop : o <= i)

StartsChar(s, j, p) ==
    p = j \/ s[p - 1] # Backslash \/ BackslashRun(s, j, p) % 2 = 0

ClosesString(s, j, p) == s[p] = Quote /\ StartsChar(s, j, p)

\* The index of the closing quote of the string that starts at j, 0 when
\* the text ends before one.
ClosingQuote(s, j) ==
    IF \E p \in j..Len(s) : ClosesString(s, j, p)
    THEN CHOOSE p \in j..Len(s) :
            ClosesString(s, j, p) /\ \A q \in j..(p - 1) : ~ClosesString(s, j, q)
    ELSE 0

\* The characters that the starting positions at stand for, in order.
Unescaped(s, at) ==
    [n \in 1..Cardinality(at) |->
        IF s[CHOOSE p \in at : Cardinality({q \in at : q <= p}) = n] = Backslash
        THEN Unescape(s[(CHOOSE p \in at : Cardinality({q \in at : q <= p}) = n) + 1])[1]
        ELSE s[CHOOSE p \in at : Cardinality({q \in at : q <= p}) = n]]

ScanTo(s, j, acc, close) ==
    IF close = 0 THEN Fail
    ELSE IF \E p \in j..(close - 1) :
                /\ StartsChar(s, j, p)
                /\ \/ s[p] \in {CR, LF, TAB, BadByte}
                   \/ s[p] = Backslash /\ Unescape(s[p + 1]) = <<>>
    THEN Fail
    ELSE IF \A p \in j..(close - 1) : s[p] # Backslash
    THEN [ok |-> TRUE, v |-> acc \o SubSeq(s, j, close - 1), i |-> close + 1]
    ELSE [ok |-> TRUE,
          v |-> acc \o Unescaped(s, {p \in j..(close - 1) : StartsChar(s, j, p)}),
          i |-> close + 1]

ScanString(s, j, acc) == ScanTo(s, j, acc, ClosingQuote(s, j))

\* The index after the last digit of the run of digits starting at j.
RECURSIVE DigitsEnd(_, _)
DigitsEnd(s, j) ==
    IF j <= Len(s) /\ IsDigit(s[j]) THEN DigitsEnd(s, j + 1) ELSE j

\* A JSON integer at index i: an optional "-", then "0" or a run of digits
\* that does not start with "0".
ParseNumber(s, i) ==
    LET neg == s[i] = "-"
        j == IF neg THEN i + 1 ELSE i
    IN  IF j > Len(s) \/ ~IsDigit(s[j]) THEN Fail
        ELSE LET e == IF s[j] = "0" THEN j + 1 ELSE DigitsEnd(s, j)
                 n == DecimalValue(SubSeq(s, j, e - 1))
             IN  IF e <= Len(s) /\ s[e] \in {".", "e", "E"} THEN Fail
                 ELSE [ok |-> TRUE, v |-> Num(IF neg THEN 0 - n ELSE n), i |-> e]

\* The map an object's members make: of two members with one key the later wins.
MapOfPairs(pairs) ==
    [k \in {pairs[n].k : n \in 1..Len(pairs)} |->
        LET last == CHOOSE n \in 1..Len(pairs) :
                        pairs[n].k = k /\ \A o \in (n + 1)..Len(pairs) : pairs[o].k # k
        IN pairs[last].v]

\* The key of a member and the colon after it, from index a: the key and
\* the index after the colon, which is 0 when there is no key and colon.
KeyColon(s, key) ==
    IF ~key.ok \/ SkipWs(s, key.i) > Len(s) \/ s[SkipWs(s, key.i)] # ":"
    THEN [ok |-> FALSE, i |-> 0]
    ELSE [ok |-> TRUE, v |-> key.v, i |-> SkipWs(s, key.i) + 1]

ParseKey(s, a) ==
    IF a > Len(s) \/ s[a] # Quote THEN [ok |-> FALSE, i |-> 0]
    ELSE KeyColon(s, ScanString(s, a + 1, <<>>))

\* What comes at index i: the character there, "" behind the end of the text.
At(s, i) == IF i <= Len(s) THEN s[i] ELSE ""

\* An object or an array that is not empty starts at index a: its opening
\* character is there and the closing one does not come next.
Opens(s, a, opening, closing) ==
    At(s, a) = opening /\ At(s, SkipWs(s, a + 1)) # closing

\* A value at index a that holds no other value: an empty object, an empty
\* array, a string, a number, null, true or false.
StrOf(str) ==
    IF str.ok THEN [ok |-> TRUE, v |-> Str(str.v), i |-> str.i] ELSE Fail

ParseScalar(s, a) ==
    IF a > Len(s) THEN Fail
    ELSE IF s[a] = "{" THEN
        [ok |-> TRUE, v |-> Obj(EmptyMap), pairs |-> <<>>, i |-> SkipWs(s, a + 1) + 1]
    ELSE IF s[a] = "[" THEN
        [ok |-> TRUE, v |-> Arr(<<>>), i |-> SkipWs(s, a + 1) + 1]
    ELSE IF s[a] = Quote THEN StrOf(ScanString(s, a + 1, <<>>))
    ELSE IF s[a] = "-" \/ IsDigit(s[a]) THEN ParseNumber(s, a)
    ELSE IF StartsWith(SubSeq(s, a, Len(s)), <<"n", "u", "l", "l">>)
        THEN [ok |-> TRUE, v |-> Null, i |-> a + 4]
    ELSE IF StartsWith(SubSeq(s, a, Len(s)), <<"t", "r", "u", "e">>)
        THEN [ok |-> TRUE, v |-> Bool(TRUE), i |-> a + 4]
    ELSE IF StartsWith(SubSeq(s, a, Len(s)), <<"f", "a", "l", "s", "e">>)
        THEN [ok |-> TRUE, v |-> Bool(FALSE), i |-> a + 5]
    ELSE Fail

RECURSIVE ParseValue(_, _), ParseMembers(_, _, _, _), ParseElements(_, _, _)

\* The members of an object whose member with key `key` has the value val,
\* read after the members acc: a comma and more members follow, or "}".
\* The result holds the members in order, as pairs [k |-> key, v |-> value],
\* and the object they make.
ParseMembers(s, acc, key, val) ==
    IF val.ok
    THEN IF At(s, SkipWs(s, val.i)) = ","
         THEN ParseMembers(s, Append(acc, [k |-> key.v, v |-> val.v]),
                           ParseKey(s, SkipWs(s, SkipWs(s, val.i) + 1)),
                           ParseValue(s, ParseKey(s, SkipWs(s, SkipWs(s, val.i) + 1)).i))
         ELSE IF At(s, SkipWs(s, val.i)) = "}"
         THEN [ok |-> TRUE,
               v |-> Obj(MapOfPairs(Append(acc, [k |-> key.v, v |-> val.v]))),
               pairs |-> Append(acc, [k |-> key.v, v |-> val.v]),
               i |-> SkipWs(s, val.i) + 1]
         ELSE Fail
    ELSE Fail

\* The elements of an array whose element read after the elements acc is
\* val: a comma and more elements follow, or "]".
ParseElements(s, acc, val) ==
    IF val.ok
    THEN IF At(s, SkipWs(s, val.i)) = ","
         THEN ParseElements(s, Append(acc, val.v), ParseValue(s, SkipWs(s, val.i) + 1))
         ELSE IF At(s, SkipWs(s, val.i)) = "]"
         THEN [ok |-> TRUE, v |-> Arr(Append(acc, val.v)), i |-> SkipWs(s, val.i) + 1]
         ELSE Fail
    ELSE Fail

\* Deserialize for serde_json::Value: any one JSON value at index i; for an
\* object the result also holds its members in order.  Behind a key that
\* could not be read (index 0) no value is read.
ParseValue(s, i) ==
    IF i # 0 /\ Opens(s, SkipWs(s, i), "{", "}")
    THEN ParseMembers(s, <<>>, ParseKey(s, SkipWs(s, SkipWs(s, i) + 1)),
                      ParseValue(s, ParseKey(s, SkipWs(s, SkipWs(s, i) + 1)).i))
    ELSE IF i # 0 /\ Opens(s, SkipWs(s, i), "[", "]")
    THEN ParseElements(s, <<>>, ParseValue(s, SkipWs(s, i) + 1))
    ELSE IF i = 0 THEN Fail
    ELSE ParseScalar(s, SkipWs(s, i))

\* The members of the object whose "{" is at index i, in order.
PairsOf(o) ==
    IF o.ok THEN [ok |-> TRUE, v |-> o.pairs, i |-> o.i] ELSE Fail

ParseObject(s, i) == PairsOf(ParseValue(s, i))

(***************************************************************************)
(* The message shapes of protocol.rs and their derived Serialize and       *)
(* Deserialize.                                                            *)
(***************************************************************************)
T_jsonrpc == <<"j", "s", "o", "n", "r", "p", "c">>
T_id == <<"i", "d">>
T_method == <<"m", "e", "t", "h", "o", "d">>
T_params == <<"p", "a", "r", "a", "m", "s">>
T_result == <<"r", "e", "s", "u", "l", "t">>
T_error == <<"e", "r", "r", "o", "r">>
T_v2_0 == <<"2", ".", "0">>
T_initialize == <<"i", "n", "i", "t", "i", "a", "l", "i", "z", "e">>
T_initialized == <<"i", "n", "i", "t", "i", "a", "l", "i", "z", "e", "d">>

\* One member of a map or one field of a struct.
KV(k, v) == [k |-> k, v |-> v]

\* What a derived Serialize writes for a struct: its fields in declaration
\* order (a flattened field contributes its own fields in place).
RECURSIVE WriteFields(_, _)
WriteFields(fields, n) ==
    IF n > Len(fields) THEN (IF n = 1 THEN <<"{", "}">> ELSE <<"}">>)
    ELSE ((IF n = 1 THEN <<"{">> ELSE <<",">>) \o WriteString(fields[n].k) \o <<":">>
            \o WriteValue(fields[n].v)) \o WriteFields(fields, n + 1)

WriteStruct(fields) == WriteFields(fields, 1)

\* struct RequestMessage { #[serde(flatten)] base_message, id, method, params }
RequestMessage(jsonrpc, id, method, params) ==
    [type |-> "RequestMessage", base_message |-> [jsonrpc |-> jsonrpc],
     id |-> id, method |-> method, params |-> params]

\* struct NotificationMessage { #[serde(flatten)] base_message, method, params }
NotificationMessage(jsonrpc, method, params) ==
    [type |-> "NotificationMessage", base_message |-> [jsonrpc |-> jsonrpc],
     method |-> method, params |-> params]

\* struct ResponseMessage { #[serde(flatten)] base_message, id, result, error }
ResponseMessage(jsonrpc, id, result, error) ==
    [type |-> "ResponseMessage", base_message |-> [jsonrpc |-> jsonrpc],
     id |-> id, result |-> result, error |-> error]

\* A value whose Serialize fails (send_request takes any T: Serialize; a map
\* with keys that are not strings is one such T).
Unserializable == [type |-> "Unserializable"]

\* serde_json::to_value of ClientCapabilities as new_initialize fills it.
ClientCapabilities ==
    Obj(MapOfPairs(<<
        KV(<<"w", "o", "r", "k", "s", "p", "a", "c", "e">>, Obj(MapOfPairs(<<
            KV(<<"w", "o", "r", "k", "s", "p", "a", "c", "e", "F", "o", "l", "d", "e", "r", "s">>, Bool(TRUE)),
            KV(<<"d", "i", "d", "C", "h", "a", "n", "g", "e", "C", "o", "n", "f", "i", "g", "u", "r", "a", "t", "i", "o", "n">>, Obj(MapOfPairs(<<
                KV(<<"d", "y", "n", "a", "m", "i", "c", "R", "e", "g", "i", "s", "t", "r", "a", "t", "i", "o", "n">>, Bool(TRUE))>>))),
            KV(<<"w", "o", "r", "k", "s", "p", "a", "c", "e", "E", "d", "i", "t">>, Obj(MapOfPairs(<<
                KV(<<"d", "o", "c", "u", "m", "e", "n", "t", "C", "h", "a", "n", "g", "e", "s">>, Bool(TRUE))>>))),
            KV(<<"c", "o", "n", "f", "i", "g", "u", "r", "a", "t", "i", "o", "n">>, Bool(TRUE))>>))),
        KV(<<"t", "e", "x", "t", "D", "o", "c", "u", "m", "e", "n", "t">>, Obj(MapOfPairs(<<
            KV(<<"h", "o", "v", "e", "r">>, Obj(MapOfPairs(<<
                KV(<<"c", "o", "n", "t", "e", "n", "t", "F", "o", "r", "m", "a", "t">>, Arr(<<Str(<<"p", "l", "a", "i", "n", "t", "e", "x", "t">>)>>))>>))),
            KV(<<"c", "o", "m", "p", "l", "e", "t", "i", "o", "n">>, Obj(MapOfPairs(<<
                KV(<<"c", "o", "m", "p", "l", "e", "t", "i", "o", "n", "I", "t", "e", "m">>, Obj(MapOfPairs(<<
                    KV(<<"s", "n", "i", "p", "p", "e", "t", "S", "u", "p", "p", "o", "r", "t">>, Bool(TRUE))>>)))>>))),
            KV(<<"c", "o", "d", "e", "A", "c", "t", "i", "o", "n">>, Obj(MapOfPairs(<<
                KV(<<"c", "o", "d", "e", "A", "c", "t", "i", "o", "n", "L", "i", "t", "e", "r", "a", "l", "S", "u", "p", "p", "o", "r", "t">>, Obj(MapOfPairs(<<
                    KV(<<"c", "o", "d", "e", "A", "c", "t", "i", "o", "n", "K", "i", "n", "d">>, Obj(MapOfPairs(<<
                        KV(<<"v", "a", "l", "u", "e", "S", "e", "t">>, Arr(<<
                            Str(<<"s", "o", "u", "r", "c", "e", ".", "o", "r", "g", "a", "n", "i", "z", "e", "I", "m", "p", "o", "r", "t", "s">>),
                            Str(<<"r", "e", "f", "a", "c", "t", "o", "r", ".", "r", "e", "w", "r", "i", "t", "e">>),
                            Str(<<"r", "e", "f", "a", "c", "t", "o", "r", ".", "e", "x", "t", "r", "a", "c", "t">>)>>))>>)))>>)))>>)))>>)))>>))

\* serde_json::to_value of one WorkspaceFolder { uri, name }.
WorkspaceFolder(uri, name) ==
    Obj(MapOfPairs(<<KV(<<"u", "r", "i">>, Str(uri)), KV(<<"n", "a", "m", "e">>, Str(name))>>))

\* A faulty variant of new_initialize: the name and the version of the client
\* change places in clientInfo.
new_initialize_SwappedClientInfo(id, process_id, root_uri, client_name, client_version, workspace_folders) ==
    RequestMessage(T_v2_0, Num(id), T_initialize,
        Obj(MapOfPairs(<<
            KV(<<"p", "r", "o", "c", "e", "s", "s", "I", "d">>, Num(process_id)),
            KV(<<"r", "o", "o", "t", "U", "r", "i">>, Str(root_uri)),
            KV(<<"c", "l", "i", "e", "n", "t", "I", "n", "f", "o">>, Obj(MapOfPairs(<<
                KV(<<"n", "a", "m", "e">>, Str(client_version)),
                KV(<<"v", "e", "r", "s", "i", "o", "n">>, Str(client_name))>>))),
            KV(<<"c", "a", "p", "a", "b", "i", "l", "i", "t", "i", "e", "s">>, ClientCapabilities),
            KV(<<"w", "o", "r", "k", "s", "p", "a", "c", "e", "F", "o", "l", "d", "e", "r", "s">>, Arr(workspace_folders))>>)))

\* RequestMessage::new_initialize: params is serde_json::to_value of the
\* InitializeParams, hence a Value::Object.
new_initialize(id, process_id, root_uri, client_name, client_version, workspace_folders) ==
    RequestMessage(T_v2_0, Num(id), T_initialize,
        Obj(MapOfPairs(<<
            KV(<<"p", "r", "o", "c", "e", "s", "s", "I", "d">>, Num(process_id)),
            KV(<<"r", "o", "o", "t", "U", "r", "i">>, Str(root_uri)),
            KV(<<"c", "l", "i", "e", "n", "t", "I", "n", "f", "o">>, Obj(MapOfPairs(<<
                KV(<<"n", "a", "m", "e">>, Str(client_name)),
                KV(<<"v", "e", "r", "s", "i", "o", "n">>, Str(client_version))>>))),
            KV(<<"c", "a", "p", "a", "b", "i", "l", "i", "t", "i", "e", "s">>, ClientCapabilities),
            KV(<<"w", "o", "r", "k", "s", "p", "a", "c", "e", "F", "o", "l", "d", "e", "r", "s">>, Arr(workspace_folders))>>)))

\* A faulty variant of new_initialized: the method of the request, not of the
\* notification.
new_initialized_WrongMethod == NotificationMessage(T_v2_0, T_initialize, Obj(EmptyMap))

\* NotificationMessage::new_initialized
new_initialized == NotificationMessage(T_v2_0, T_initialized, Obj(EmptyMap))

\* serde_json::to_string(&request): Some(text), or None when Serialize fails.
to_string(request) ==
    CASE request.type = "RequestMessage" ->
            Some(WriteStruct(<<KV(T_jsonrpc, Str(request.base_message.jsonrpc)),
                               KV(T_id, request.id),
                               KV(T_method, Str(request.method)),
                               KV(T_params, request.params)>>))
      [] request.type = "NotificationMessage" ->
            Some(WriteStruct(<<KV(T_jsonrpc, Str(request.base_message.jsonrpc)),
                               KV(T_method, Str(request.method)),
                               KV(T_params, request.params)>>))
      [] request.type = "ResponseMessage" ->
            Some(WriteStruct(<<KV(T_jsonrpc, Str(request.base_message.jsonrpc)),
                               KV(T_id, request.id),
                               KV(T_result, request.result),
                               KV(T_error, IF IsSome(request.error)
                                           THEN request.error[1] ELSE Null)>>))
      [] OTHER -> None

\* How many members of an object carry key k.
CountKey(pairs, k) == Cardinality({n \in 1..Len(pairs) : pairs[n].k = k})

\* The value of the one member with key k.
ValueOfKey(pairs, k) == pairs[CHOOSE n \in 1..Len(pairs) : pairs[n].k = k].v

\* The derived Deserialize of ResponseMessage over the members of the object
\* read: see from_slice.
visit_map(pairs) ==
    IF \E k \in {T_jsonrpc, T_id, T_result, T_error} : CountKey(pairs, k) > 1 THEN None
    ELSE IF CountKey(pairs, T_id) = 0 \/ CountKey(pairs, T_result) = 0 THEN None
    ELSE IF CountKey(pairs, T_jsonrpc) = 0 THEN None
    ELSE IF ValueOfKey(pairs, T_jsonrpc).t # "str" THEN None
    ELSE Some(ResponseMessage(
            ValueOfKey(pairs, T_jsonrpc).s,
            ValueOfKey(pairs, T_id),
            ValueOfKey(pairs, T_result),
            IF CountKey(pairs, T_error) = 0 \/ ValueOfKey(pairs, T_error) = Null
            THEN None ELSE Some(ValueOfKey(pairs, T_error))))

\* Deserializer::end after the value o was read: only whitespace may follow
\* the object, whose members then make the message.
end_of_input(body, o) ==
    IF ~o.ok \/ SkipWs(body, o.i) <= Len(body) THEN None
    ELSE visit_map(o.v)

\* serde_json::from_slice::<ResponseMessage>, as derived for the struct of
\* protocol.rs: the body is one JSON object and nothing but whitespace
\* around it; id and result are serde_json::Value fields and must be there
\* (null counts as there), error is an Option and may be absent or null,
\* the flattened BaseMessage needs a string jsonrpc; a field given twice is
\* an error; other members are ignored.  Ok(message) is Some, Err is None.
from_slice(body) ==
    IF At(body, SkipWs(body, 1)) # "{" THEN None
    ELSE end_of_input(body, ParseObject(body, SkipWs(body, 1)))

(***************************************************************************)
(* Bounds of the model.                                                    *)
(***************************************************************************)
MaxPeerWrites == 2      \* writes the peer makes to the stream
MaxCalls == 3           \* handle_response calls that return
MaxSends == 2           \* send_request calls
MaxConnects == 2        \* LspClient::new calls

(***************************************************************************)
(* The state: one LspClient and the duplex stream it owns.                 *)
(***************************************************************************)
VARIABLES
    inbound,        \* every byte the peer has written to the stream so far
    peerWrites,     \* how many writes the peer has made
    eof,            \* the peer has closed its side: reads past inbound fail
    rd,             \* how many bytes of inbound the client has read
    outbound,       \* what the client did to the write side: writes and flushes
    txFault,        \* "none", or the operation at which the write side fails
    pc,             \* handle_response: "idle", or suspended in "headers" or "body"
    callStart,      \* rd when the running handle_response call began
    frameStart,     \* rd when the call's current turn of its outer loop began
    headers,        \* handle_response's local header buffer
    content_length, \* handle_response's local content_length
    body,           \* the part of the body read_exact has filled so far
    calls,          \* the handle_response calls that returned, in order, each with
                    \* the stream offsets at which the call and its last frame
                    \* began and at which it returned, and with the number of
                    \* send_request calls made before it returned
    sends,          \* the send_request calls that returned, in order
    connects        \* the LspClient::new calls that returned, in order

vars == <<inbound, peerWrites, eof, rd, outbound, txFault, pc, callStart, frameStart,
          headers, content_length, body, calls, sends, connects>>

rxVars == <<inbound, peerWrites, eof>>
callVars == <<rd, pc, callStart, frameStart, headers, content_length, body, calls>>
txVars == <<outbound, txFault, sends>>

\* Result<T>: Ok(v) and Err(e).
Ok(v) == [ok |-> TRUE, v |-> v]
Err(e) == [ok |-> FALSE, err |-> e]

(***************************************************************************)
(* handle_response                                                         *)
(***************************************************************************)
HeaderTerminator == <<CR, LF, CR, LF>>
ContentLengthPrefix == <<"C", "o", "n", "t", "e", "n", "t", "-", "L", "e", "n", "g", "t", "h", ":">>

\* Faulty variants of ScanContentLength: one parses the text after the first ":"
\* without trimming it, one takes a length of 0 when no line gives one.
ScanContentLength_NoTrim(hdrs) ==
    LET lines == Lines(FromUtf8Lossy(hdrs))
        hits == {i \in 1..Len(lines) :
                    /\ StartsWith(lines[i], ContentLengthPrefix)
                    /\ Len(SplitN2(lines[i], ":")) > 1}
    IN  IF hits = {} THEN None
        ELSE LET i == CHOOSE h \in hits : \A o \in hits : h <= o
             IN Some(ParseUsize(SplitN2(lines[i], ":")[2]))

ScanContentLength_DefaultZero(hdrs) ==
    LET lines == Lines(FromUtf8Lossy(hdrs))
        hits == {i \in 1..Len(lines) :
                    /\ StartsWith(lines[i], ContentLengthPrefix)
                    /\ Len(SplitN2(lines[i], ":")) > 1}
    IN  IF hits = {} THEN Some(Some(0))
        ELSE LET i == CHOOSE h \in hits : \A o \in hits : h <= o
             IN Some(ParseUsize(Trim(SplitN2(lines[i], ":")[2])))

\* A faulty variant of ScanContentLength: the loop does not break, and the
\* last Content-Length line decides.
ScanContentLength_LastWins(hdrs) ==
    LET lines == Lines(FromUtf8Lossy(hdrs))
        hits == {i \in 1..Len(lines) :
                    /\ StartsWith(lines[i], ContentLengthPrefix)
                    /\ Len(SplitN2(lines[i], ":")) > 1}
    IN  IF hits = {} THEN None
        ELSE LET i == CHOOSE h \in hits : \A o \in hits : o <= h
             IN Some(ParseUsize(Trim(SplitN2(lines[i], ":")[2])))

\* The for loop over headers_str.lines(): the first line that starts with
\* "Content-Length:" and splits in two at ":" decides, and the loop breaks
\* there.  None when no line does; otherwise Some of what parse() gave for
\* the trimmed text after the first ":" (itself Some(n), or None on a
\* ParseIntError).
ScanContentLength(hdrs) ==
    LET lines == Lines(FromUtf8Lossy(hdrs))
        hits == {i \in 1..Len(lines) :
                    /\ StartsWith(lines[i], ContentLengthPrefix)
                    /\ Len(SplitN2(lines[i], ":")) > 1}
    IN  IF hits = {} THEN None
        ELSE LET i == CHOOSE h \in hits : \A o \in hits : h <= o
                 length_str == Trim(SplitN2(lines[i], ":")[2])
             IN Some(ParseUsize(length_str))

\* A faulty variant of HasValidId: every response that parsed is returned.
HasValidId_Always(response) == TRUE

\* response.id.is_some(): the id is there and is not null.  (protocol.rs
\* declares id as a serde_json::Value, where an absent id is already a parse
\* error and a null id is Value::Null.)
HasValidId(response) == response.id # Null

\* A faulty variant of ReadExactCount: the read takes every byte the stream holds.
ReadExactCount_Available(need, avail) == avail

\* How many bytes a read_exact into a buffer with `need` bytes left to fill
\* takes from a stream that holds `avail` bytes: never more than it needs.
ReadExactCount(need, avail) == IF need <= avail THEN need ELSE avail

\* How many of the bytes `avail` the header loop reads, one at a time, with
\* `hs` already in its buffer: up to the first byte after which the buffer
\* ends with the blank line, or all of them when no byte completes one.
HeaderBytesToRead(hs, avail) ==
    LET stops == {k \in 1..Len(avail) :
                    EndsWith(hs \o SubSeq(avail, 1, k), HeaderTerminator)}
    IN  IF stops = {} THEN Len(avail)
        ELSE CHOOSE k \in stops : \A o \in stops : k <= o

\* The state of a handle_response call that has returned r.
Returned(c, r) == [c EXCEPT !.pc = "idle", !.ret = Some(r)]

\* handle_response from the call state c, run until it returns or until a
\* read_exact finds no byte to read on a stream that is still open.
RECURSIVE handle_response(_)

\* A faulty variant of ReadExactStops: at the end of the stream the call
\* goes on with the bytes it has and parses them as the body.
ReadExactStops_Recovers(c1) ==
    IF ~eof THEN c1
    ELSE IF from_slice(c1.body) # None /\ HasValidId(from_slice(c1.body)[1])
         THEN Returned(c1, Ok(from_slice(c1.body)[1]))
         ELSE Returned(c1, Err("MalformedBody"))

\* read_exact(...).await? with fewer bytes on the stream than the buffer
\* needs, the call being in state c1 after taking those: the read fails
\* once the stream has ended, and `?` returns its error; on an open stream
\* the call stays suspended in the read.
ReadExactStops(c1) ==
    IF eof THEN Returned(c1, Err("UnexpectedEof")) ELSE c1

\* A faulty variant of Dispatch: a body that does not parse is passed over
\* like a message without an id.
Dispatch_SkipMalformed(c1, response) ==
    IF response # None /\ HasValidId(response[1]) THEN Returned(c1, Ok(response[1]))
    ELSE handle_response([c1 EXCEPT !.pc = "headers", !.headers = <<>>,
                                    !.content_length = 0, !.body = <<>>,
                                    !.frame = c1.rd])

\* What handle_response does with what from_slice gave for a body, the call
\* being in state c1: the error of map_err, the return of an id-bearing
\* response, or another turn of the outer loop.
Dispatch(c1, response) ==
    IF response = None THEN Returned(c1, Err("MalformedBody"))
    ELSE IF HasValidId(response[1]) THEN Returned(c1, Ok(response[1]))
    ELSE handle_response([c1 EXCEPT !.pc = "headers", !.headers = <<>>,
                                    !.content_length = 0, !.body = <<>>,
                                    !.frame = c1.rd])

handle_response(c) ==
    IF c.pc = "headers" THEN
        \* The inner loop: read_exact of one byte, push, test ends_with, as
        \* many times as the stream has bytes, up to the first blank line.
        LET k == HeaderBytesToRead(c.headers, SubSeq(inbound, c.rd + 1, Len(inbound)))
            hs == c.headers \o SubSeq(inbound, c.rd + 1, c.rd + k)
            c1 == [c EXCEPT !.headers = hs, !.rd = c.rd + k]
        IN  IF ~EndsWith(hs, HeaderTerminator) THEN
                ReadExactStops(c1)
            ELSE LET cl == ScanContentLength(hs) IN
                 IF cl = None THEN Returned(c1, Err("MissingContentLength"))
                 ELSE IF cl[1] = None THEN Returned(c1, Err("ParseIntError"))
                 ELSE handle_response([c1 EXCEPT !.pc = "body", !.content_length = cl[1][1],
                                     !.body = <<>>])
    ELSE IF c.pc = "body" THEN
        \* self.stream.read_exact(&mut body).await?
        LET need == c.content_length - Len(c.body)
            avail == Len(inbound) - c.rd
            k == ReadExactCount(need, avail)
            b == c.body \o SubSeq(inbound, c.rd + 1, c.rd + k)
            c1 == [c EXCEPT !.body = b, !.rd = c.rd + k]
        IN  IF k < need THEN
                ReadExactStops(c1)
            ELSE Dispatch(c1, from_slice(b))
    ELSE c

\* The variables of the call after handle_response has brought it to c.
Commit(c) ==
    /\ rd' = c.rd
    /\ pc' = c.pc
    /\ frameStart' = c.frame
    /\ headers' = IF c.pc = "idle" THEN <<>> ELSE c.headers
    /\ content_length' = IF c.pc = "idle" THEN 0 ELSE c.content_length
    /\ body' = IF c.pc = "idle" THEN <<>> ELSE c.body
    /\ calls' = IF c.ret = None THEN calls
                ELSE Append(calls, [start |-> callStart', frame |-> c.frame, end |-> c.rd,
                                    sent |-> Len(sends), ret |-> c.ret[1]])

\* The caller calls handle_response.
HandleResponseCall ==
    /\ pc = "idle"
    /\ Len(calls) < MaxCalls
    /\ callStart' = rd
    /\ Commit(handle_response([pc |-> "headers", headers |-> <<>>, content_length |-> 0,
                   body |-> <<>>, rd |-> rd, frame |-> rd, ret |-> None]))
    /\ UNCHANGED <<rxVars, txVars, connects>>

\* A suspended handle_response is woken by bytes to read or by the end of
\* the stream.
HandleResponseResume ==
    /\ pc # "idle"
    /\ rd < Len(inbound) \/ eof
    /\ callStart' = callStart
    /\ Commit(handle_response([pc |-> pc, headers |-> headers, content_length |-> content_length,
                   body |-> body, rd |-> rd, frame |-> frameStart, ret |-> None]))
    /\ UNCHANGED <<rxVars, txVars, connects>>

(***************************************************************************)
(* The peer: what a language server, well behaved or not, may put on the   *)
(* stream.                                                                 *)
(***************************************************************************)
\* A frame as the LSP base protocol defines it.
Framed(b) == ContentLengthPrefix \o <<SP>> \o ToDecimal(Len(b)) \o HeaderTerminator \o b

\* {"jsonrpc":"2.0","id":1,"result":{}}
BodyResponse1 == <<"{", "\"", "j", "s", "o", "n", "r", "p", "c", "\"", ":", "\"", "2", ".", "0", "\"", ",", "\"", "i", "d", "\"", ":", "1", ",", "\"", "r", "e", "s", "u", "l", "t", "\"", ":", "{", "}", "}">>

\* {"jsonrpc": "2.0", "id": 2, "result": {"a":[1,"b"]}} and a line end
BodyResponse2 == <<"{", "\"", "j", "s", "o", "n", "r", "p", "c", "\"", ":", " ", "\"", "2", ".", "0", "\"", ",", " ", "\"", "i", "d", "\"", ":", " ", "2", ",", " ", "\"", "r", "e", "s", "u", "l", "t", "\"", ":", " ", "{", "\"", "a", "\"", ":", "[", "1", ",", "\"", "b", "\"", "]", "}", "}", LF>>

\* {"jsonrpc":"2.0","id":1,"error":{"code":-1}}: an error response, no result
BodyErrorResponse == <<"{", "\"", "j", "s", "o", "n", "r", "p", "c", "\"", ":", "\"", "2", ".", "0", "\"", ",", "\"", "i", "d", "\"", ":", "1", ",", "\"", "e", "r", "r", "o", "r", "\"", ":", "{", "\"", "c", "o", "d", "e", "\"", ":", "-", "1", "}", "}">>

\* {"jsonrpc":"2.0","id":null,"result":{}}
BodyNullId == <<"{", "\"", "j", "s", "o", "n", "r", "p", "c", "\"", ":", "\"", "2", ".", "0", "\"", ",", "\"", "i", "d", "\"", ":", "n", "u", "l", "l", ",", "\"", "r", "e", "s", "u", "l", "t", "\"", ":", "{", "}", "}">>

\* {"jsonrpc":"2.0","result":{}}
BodyNoId == <<"{", "\"", "j", "s", "o", "n", "r", "p", "c", "\"", ":", "\"", "2", ".", "0", "\"", ",", "\"", "r", "e", "s", "u", "l", "t", "\"", ":", "{", "}", "}">>

\* {"jsonrpc":"2.0","method":"m","params":{}}: a notification
BodyNotification == <<"{", "\"", "j", "s", "o", "n", "r", "p", "c", "\"", ":", "\"", "2", ".", "0", "\"", ",", "\"", "m", "e", "t", "h", "o", "d", "\"", ":", "\"", "m", "\"", ",", "\"", "p", "a", "r", "a", "m", "s", "\"", ":", "{", "}", "}">>

\* {"id":1 : not JSON
BodyNotJson == <<"{", "\"", "i", "d", "\"", ":", "1">>

\* Header lines other than Content-Length.
HeaderContentType == <<"C", "o", "n", "t", "e", "n", "t", "-", "T", "y", "p", "e", ":", " ", "a", CR, LF>>
HeaderGarbled == <<"X", BadByte, ":", "1", CR, LF>>

\* A frame with another header line before Content-Length.
FrameHeaderBefore == HeaderContentType \o Framed(BodyResponse1)

\* A frame with another header line after Content-Length, no blank after the
\* colon and one before the line end.
FrameHeaderAfter ==
    ContentLengthPrefix \o ToDecimal(Len(BodyResponse2)) \o <<SP, CR, LF>>
        \o HeaderGarbled \o <<CR, LF>> \o BodyResponse2

\* A frame with two Content-Length lines, the second one wrong.
FrameTwoLengths ==
    ContentLengthPrefix \o <<SP>> \o ToDecimal(Len(BodyResponse1)) \o <<CR, LF>>
        \o ContentLengthPrefix \o <<SP, "2", CR, LF, CR, LF>> \o BodyResponse1

\* Header blocks in which no line starts with "Content-Length:".
HeadersNoLength == HeaderContentType \o <<CR, LF>>
HeadersLowerCase == <<"c", "o", "n", "t", "e", "n", "t", "-", "l", "e", "n", "g", "t", "h", ":", " ", "2", CR, LF, CR, LF>>

\* Header blocks whose Content-Length is no unsigned number.
HeadersLengthNotNumber == <<"C", "o", "n", "t", "e", "n", "t", "-", "L", "e", "n", "g", "t", "h", ":", " ", "x", CR, LF, CR, LF>>
HeadersLengthNegative == <<"C", "o", "n", "t", "e", "n", "t", "-", "L", "e", "n", "g", "t", "h", ":", " ", "-", "1", CR, LF, CR, LF>>
HeadersLengthEmpty == <<"C", "o", "n", "t", "e", "n", "t", "-", "L", "e", "n", "g", "t", "h", ":", CR, LF, CR, LF>>

\* The writes the peer chooses from.
PeerChunks ==
    { Framed(BodyResponse1),
      Framed(BodyResponse2),
      Framed(BodyErrorResponse),
      Framed(BodyNullId),
      Framed(BodyNoId),
      Framed(BodyNotification),
      Framed(BodyNotJson),
      FrameHeaderBefore,
      FrameHeaderAfter,
      FrameTwoLengths,
      HeadersNoLength \o BodyResponse1,
      HeadersLowerCase \o <<"{", "}">>,
      HeadersLengthNotNumber \o BodyResponse1,
      HeadersLengthNegative,
      HeadersLengthEmpty \o BodyResponse1,
      \* bytes that are no frame, and a frame cut short
      <<"z", LF>>,
      SubSeq(Framed(BodyResponse1), 1, 9),
      SubSeq(Framed(BodyResponse1), 1, Len(Framed(BodyResponse1)) - 3) }

PeerWrite ==
    /\ ~eof
    /\ peerWrites < MaxPeerWrites
    /\ \E chunk \in PeerChunks : inbound' = inbound \o chunk
    /\ peerWrites' = peerWrites + 1
    /\ UNCHANGED <<eof, callVars, txVars, connects>>

PeerClose ==
    /\ ~eof
    /\ eof' = TRUE
    /\ UNCHANGED <<inbound, peerWrites, callVars, txVars, connects>>

(***************************************************************************)
(* The receiving side: a client built around an open stream, as the test   *)
(* of client.rs builds it, a peer that writes, and a caller that calls     *)
(* handle_response.                                                        *)
(***************************************************************************)
Init ==
    /\ inbound = <<>>
    /\ peerWrites = 0
    /\ eof = FALSE
    /\ rd = 0
    /\ outbound = <<>>
    /\ txFault = "none"
    /\ pc = "idle"
    /\ callStart = 0
    /\ frameStart = 0
    /\ headers = <<>>
    /\ content_length = 0
    /\ body = <<>>
    /\ calls = <<>>
    /\ sends = <<>>
    /\ connects = <<>>

Next ==
    \/ HandleResponseCall
    \/ HandleResponseResume
    \/ PeerWrite
    \/ PeerClose

Spec == Init /\ [][Next]_vars

(***************************************************************************)
(* Properties of the receiving side.                                       *)
(***************************************************************************)
\* The bytes of the stream from offset p on.
From(p) == SubSeq(inbound, p + 1, Len(inbound))

\* The length of the header block s starts with: up to and including the
\* first blank line.
HeaderLength(s) ==
    CHOOSE k \in 4..Len(s) :
        /\ SubSeq(s, k - 3, k) = HeaderTerminator
        /\ \A j \in 4..(k - 1) : SubSeq(s, j - 3, j) # HeaderTerminator

\* The well-formed frames of the model that carry a Response with an id that
\* is not null and with a result: their bytes, the length they declare, and
\* the id and the result their body states.
ResultFrames ==
    { [bytes |-> Framed(BodyResponse1), n |-> 36, id |-> Num(1), result |-> Obj(EmptyMap)],
      [bytes |-> FrameHeaderBefore, n |-> 36, id |-> Num(1), result |-> Obj(EmptyMap)],
      [bytes |-> Framed(BodyResponse2), n |-> 53, id |-> Num(2),
       result |-> Obj([k \in {<<"a">>} |-> Arr(<<Num(1), Str(<<"b">>)>>)])],
      [bytes |-> FrameHeaderAfter, n |-> 53, id |-> Num(2),
       result |-> Obj([k \in {<<"a">>} |-> Arr(<<Num(1), Str(<<"b">>)>>)])] }

\* The well-formed frame that carries an error Response: an id, an error
\* member, no result member.
ErrorFrame == [bytes |-> Framed(BodyErrorResponse), n |-> 44, id |-> Num(1)]

\* n copies of a byte string, one after the other.
RECURSIVE Repeat(_, _)
Repeat(b, n) == IF n = 0 THEN <<>> ELSE b \o Repeat(b, n - 1)

\* C2 (as claimed): a call that finds any number of well-formed Notification
\* frames and then a well-formed Response frame with an id discards the
\* notifications without an error and returns that Response, having read
\* exactly those frames.
C2_NotificationsSkipped ==
    \A n \in 1..Len(calls) : \A k \in 0..MaxPeerWrites : \A f \in ResultFrames :
        StartsWith(From(calls[n].start), Repeat(Framed(BodyNotification), k) \o f.bytes)
        => /\ calls[n].ret.ok
           /\ calls[n].ret.v.id = f.id
           /\ calls[n].end = calls[n].start + k * Len(Framed(BodyNotification)) + Len(f.bytes)

\* C3: when the frame a call reads is a well-formed Response frame with an
\* id that is not null and a result, the call returns Ok with a response
\* whose id and result are those of the frame's body.
C3_ResponseReturned ==
    \A n \in 1..Len(calls) : \A f \in ResultFrames :
        StartsWith(From(calls[n].frame), f.bytes)
        => /\ calls[n].ret.ok
           /\ calls[n].ret.v.id = f.id
           /\ calls[n].ret.v.result = f.result

\* C3's case: a call has discarded a frame with a null id and then returned
\* the response with id 2 from the frame whose Content-Length line is
\* followed by another header line.
C3_Witness ==
    \E n \in 1..Len(calls) :
        /\ calls[n].frame > calls[n].start
        /\ StartsWith(From(calls[n].frame), FrameHeaderAfter)
        /\ calls[n].ret.ok /\ calls[n].ret.v.id = Num(2)

\* C4 (as claimed): when the frame a call reads is a well-formed error
\* Response (an id, an error member, no result member), the call returns Ok
\* with that response.
C4_ErrorResponseReturned ==
    \A n \in 1..Len(calls) :
        StartsWith(From(calls[n].frame), ErrorFrame.bytes)
        => /\ calls[n].ret.ok
           /\ calls[n].ret.v.id = ErrorFrame.id
           /\ IsSome(calls[n].ret.v.error)

\* C5 (as claimed): a response a call returns has an id that is not null,
\* and a Response-shaped frame whose id is null or missing never ends a call:
\* it is discarded and the call goes on to read the next header block.
C5_IdlessDiscarded ==
    \A n \in 1..Len(calls) :
        /\ calls[n].ret.ok => calls[n].ret.v.id # Null
        /\ \A b \in {BodyNullId, BodyNoId} : ~StartsWith(From(calls[n].frame), Framed(b))

\* C6: when a call starts at a well-formed Response frame with an id, it
\* reads exactly that frame, header_length + N bytes, whatever follows it on
\* the stream.
C6_ConsumesExactlyOneFrame ==
    \A n \in 1..Len(calls) : \A f \in ResultFrames \cup {ErrorFrame} :
        StartsWith(From(calls[n].start), f.bytes)
        => calls[n].end = calls[n].start + HeaderLength(f.bytes) + f.n

\* C6's case: a call has returned a response from a frame that other bytes
\* follow on the stream, and those bytes are still unread.
C6_Witness ==
    /\ pc = "idle"
    /\ \E n \in 1..Len(calls) : \E f \in ResultFrames :
        /\ n = Len(calls)
        /\ StartsWith(From(calls[n].start), f.bytes)
        /\ calls[n].ret.ok
        /\ Len(inbound) > calls[n].end
        /\ rd = calls[n].end

\* C7: when the header block a call reads has no line that starts with
\* "Content-Length:", the call returns the missing-Content-Length error and
\* has read the header block up to its blank line and not one byte more.
C7_MissingContentLength ==
    \A n \in 1..Len(calls) : \A h \in {HeadersNoLength, HeadersLowerCase} :
        StartsWith(From(calls[n].frame), h)
        => /\ calls[n].ret = Err("MissingContentLength")
           /\ calls[n].end = calls[n].frame + Len(h)

\* C7's case: a call has returned the missing-Content-Length error and the
\* bytes after the header block are still on the stream.
C7_Witness ==
    \E n \in 1..Len(calls) :
        /\ StartsWith(From(calls[n].frame), HeadersNoLength)
        /\ calls[n].ret = Err("MissingContentLength")
        /\ n = Len(calls) /\ pc = "idle" /\ rd = calls[n].end
        /\ From(rd) # <<>>

\* The ids of the Response frames with an id among the frames that make
\* up `bytes`, in order; None when `bytes` is not a run of well-formed frames
\* of the model taken from `withId` (frames that carry an id) and the
\* frames without one.
RECURSIVE IdsOfFrames(_, _)
IdsOfFrames(bytes, withId) ==
    IF bytes = <<>> THEN Some(<<>>)
    ELSE IF \E f \in withId : StartsWith(bytes, f.bytes) THEN
        LET f == CHOOSE g \in withId : StartsWith(bytes, g.bytes)
            rest == IdsOfFrames(SubSeq(bytes, Len(f.bytes) + 1, Len(bytes)), withId)
        IN IF rest = None THEN None ELSE Some(<<f.id>> \o rest[1])
    ELSE IF \E b \in {BodyNotification, BodyNullId, BodyNoId} : StartsWith(bytes, Framed(b)) THEN
        LET b == CHOOSE g \in {BodyNotification, BodyNullId, BodyNoId} :
                    StartsWith(bytes, Framed(g))
        IN IdsOfFrames(SubSeq(bytes, Len(Framed(b)) + 1, Len(bytes)), withId)
    ELSE None

\* The ids of the responses the calls returned, in the order of the calls.
RECURSIVE ReturnedIds(_)
ReturnedIds(cs) ==
    IF cs = <<>> THEN <<>>
    ELSE IF cs[1].ret.ok THEN <<cs[1].ret.v.id>> \o ReturnedIds(Tail(cs))
    ELSE ReturnedIds(Tail(cs))

\* Every call starts reading where the call before it stopped, and between
\* calls the client holds no byte it has read.
NothingBufferedAcrossCalls ==
    /\ \A n \in 1..Len(calls) :
        calls[n].start = IF n = 1 THEN 0 ELSE calls[n - 1].end
    /\ pc = "idle" =>
        /\ rd = IF calls = <<>> THEN 0 ELSE calls[Len(calls)].end
        /\ headers = <<>> /\ body = <<>>

\* C9 (as claimed): across the calls, the Response frames with an id are
\* returned in the order the stream delivers them, none skipped, duplicated
\* or reordered; each call starts reading right after the last frame the
\* call before it read, and no bytes are buffered across calls.
C9_ResponsesInStreamOrder ==
    /\ NothingBufferedAcrossCalls
    /\ (pc = "idle" /\ IdsOfFrames(SubSeq(inbound, 1, rd), ResultFrames \cup {ErrorFrame}) # None)
        => ReturnedIds(calls) = IdsOfFrames(SubSeq(inbound, 1, rd), ResultFrames \cup {ErrorFrame})[1]

(***************************************************************************)
(* send_request                                                            *)
(***************************************************************************)
\* format!("Content-Length: {}\r\n\r\n{}", content_length, request_str) with
\* content_length = request_str.len(), the length in bytes.  A faulty variant counts
\* characters instead.
FrameText_CharCount(request_str) ==
    ContentLengthPrefix \o <<SP>> \o ToDecimal(CharCount(request_str))
        \o HeaderTerminator \o request_str


FrameText(request_str) ==
    ContentLengthPrefix \o <<SP>> \o ToDecimal(Len(request_str))
        \o HeaderTerminator \o request_str

\* Where a write_all that fails may have stopped: before the first byte, in
\* the middle, or one byte short.
PartialWrites(bytes) == {0, Len(bytes) \div 2, Len(bytes) - 1}

\* A faulty variant of SendReturns: the Result of write_all and flush is
\* dropped and the call returns Ok whatever happened.
SendReturns_AlwaysOk(request, events, ret) ==
    /\ outbound' = outbound \o events
    /\ sends' = Append(sends, [request |-> request, fault |-> txFault,
                               from |-> Len(outbound), to |-> Len(outbound) + Len(events),
                               ret |-> Ok(<<>>)])

\* What one send_request call leaves behind: the events it added to the
\* write side and the Result it returned.
SendReturns(request, events, ret) ==
    /\ outbound' = outbound \o events
    /\ sends' = Append(sends, [request |-> request, fault |-> txFault,
                               from |-> Len(outbound), to |-> Len(outbound) + Len(events),
                               ret |-> ret])

send_request(request) ==
    /\ pc = "idle"
    /\ Len(sends) < MaxSends
    /\ LET request_str == to_string(request) IN
       IF request_str = None THEN SendReturns(request, <<>>, Err("Serialization"))
       ELSE LET header == FrameText(request_str[1]) IN
            CASE txFault = "write" ->
                    \* write_all fails, after some of the bytes or none
                    \E k \in PartialWrites(header) :
                        SendReturns(request,
                                    IF k = 0 THEN <<>>
                                    ELSE <<[op |-> "write", bytes |-> SubSeq(header, 1, k)]>>,
                                    Err("Io"))
              [] txFault = "flush" ->
                    \* write_all succeeds, flush fails
                    SendReturns(request, <<[op |-> "write", bytes |-> header]>>, Err("Io"))
              [] OTHER ->
                    SendReturns(request,
                                <<[op |-> "write", bytes |-> header], [op |-> "flush"]>>,
                                Ok(<<>>))
    /\ UNCHANGED <<txFault, rxVars, callVars, connects>>

\* The write side of the stream breaks (a broken pipe, a reset connection):
\* from now on write_all fails, or flush does.
WriteSideFails ==
    /\ txFault = "none"
    /\ txFault' \in {"write", "flush"}
    /\ UNCHANGED <<outbound, sends, rxVars, callVars, connects>>

\* The messages the caller sends.
SendRequests ==
    { new_initialize(1, 7, <<"f">>, <<"c">>, <<"1">>, <<>>),
      new_initialize(2, 40, <<"f", ":", "/">>, <<"c">> \o EAcute, <<"0", ".", "1">>,
                     <<WorkspaceFolder(<<"u">>, <<"n">>)>>),
      new_initialized,
      RequestMessage(T_v2_0, Str(<<"a", Quote>>), <<"m", LF>>, Null),
      NotificationMessage(T_v2_0, <<"e", "x", "i", "t">>, Arr(<<Num(-3), Bool(FALSE)>>)),
      Unserializable }

(***************************************************************************)
(* The sending side: a caller that sends, on a write side that may break.  *)
(***************************************************************************)
NextSend ==
    \/ \E request \in SendRequests : send_request(request)
    \/ WriteSideFails

SpecSend == Init /\ [][NextSend]_vars

\* The bytes a frame for the JSON text j consists of: "Content-Length: ",
\* the decimal number of j's bytes, a blank line, j.
IsFrameOf(bytes, j) ==
    LET jb == j   \* a text is its bytes
        dlen == Len(bytes) - Len(jb) - 20
        d == SubSeq(bytes, 17, 16 + dlen)
    IN  /\ dlen >= 1
        /\ SubSeq(bytes, 1, 16) = <<"C", "o", "n", "t", "e", "n", "t", "-", "L", "e", "n", "g", "t", "h", ":", " ">>
        /\ \A i \in 1..dlen : IsDigit(d[i])
        /\ dlen > 1 => d[1] # "0"
        /\ DecimalValue(d) = Len(jb)
        /\ SubSeq(bytes, 17 + dlen, 20 + dlen) = <<CR, LF, CR, LF>>
        /\ SubSeq(bytes, 21 + dlen, Len(bytes)) = jb

\* C1: a send_request call with a message that serialises, on a write side
\* that works, returns Ok and adds to the stream exactly one write, of
\* "Content-Length: " + N + "\r\n\r\n" + json(m) with N the decimal number of
\* json(m)'s bytes, and then one flush.
C1_SendWritesOneFrame ==
    \A n \in 1..Len(sends) :
        (to_string(sends[n].request) # None /\ sends[n].fault = "none")
        => /\ sends[n].ret = Ok(<<>>)
           /\ sends[n].to = sends[n].from + 2
           /\ outbound[sends[n].from + 1].op = "write"
           /\ IsFrameOf(outbound[sends[n].from + 1].bytes, to_string(sends[n].request)[1])
           /\ outbound[sends[n].to] = [op |-> "flush"]

\* C1's case: two messages have been sent, the second an initialize request
\* with a character outside ASCII in it, and both frames are on the stream.
C1_Witness ==
    /\ Len(sends) = 2
    /\ sends[2].request.type = "RequestMessage"
    /\ sends[2].request.id = Num(2)
    /\ sends[1].ret.ok /\ sends[2].ret.ok
    /\ Len(outbound) = 4

(***************************************************************************)
(* LspClient::new                                                          *)
(***************************************************************************)
T_tcp == <<"t", "c", "p">>
T_unix == <<"u", "n", "i", "x">>

\* addr.splitn(2, ':').nth(1), with a faulty variant that takes the last piece
\* (which is the whole address when it holds no ':').
NthOne_Last(addr) == Some(SplitN2(addr, ":")[Len(SplitN2(addr, ":"))])

NthOne(addr) ==
    IF Len(SplitN2(addr, ":")) > 1 THEN Some(SplitN2(addr, ":")[2]) ELSE None

\* What LspClient::new(addr) does up to the connect call: the connection it
\* is about to attempt, or the error it returns without attempting one.
\* split(':').next() always yields a scheme, so the first ok_or never fails.
Dial(addr) ==
    LET scheme == SplitFirst(addr, ":") IN
    IF scheme = T_tcp THEN
        IF NthOne(addr) = None THEN Err("InvalidTcpAddress")
        ELSE Ok([kind |-> "tcp", target |-> NthOne(addr)[1]])
    ELSE IF scheme = T_unix THEN
        IF NthOne(addr) = None THEN Err("InvalidUnixPath")
        ELSE Ok([kind |-> "unix", target |-> NthOne(addr)[1]])
    ELSE Err("UnsupportedScheme")

\* The addresses the caller tries.
Addresses ==
    { <<"t", "c", "p", ":", "h", ":", "1">>,
      <<"t", "c", "p", ":", "a", ":", "b", ":", "1">>,
      <<"t", "c", "p", ":">>,
      <<"u", "n", "i", "x", ":", "/", "p">>,
      <<"u", "n", "i", "x", ":", "/", "a", ":", "b">>,
      <<"u", "n", "i", "x", ":">>,
      T_tcp,
      T_unix,
      <<>>,
      <<"/", "p">>,
      <<"w", "s", ":", "h", ":", "1">>,
      <<"T", "C", "P", ":", "h", ":", "1">>,
      <<"t", "c", "p", "x", ":", "h", ":", "1">>,
      <<":", "t", "c", "p", ":", "h">>,
      <<" ", "u", "n", "i", "x", ":", "/", "p">> }

\* LspClient::new(addr): TcpStream::connect or UnixStream::connect succeeds
\* or fails as the peer and the network decide.
new(addr) ==
    /\ Len(connects) < MaxConnects
    /\ LET dial == Dial(addr) IN
       IF ~dial.ok
       THEN connects' = Append(connects, [addr |-> addr, attempt |-> None, ret |-> dial])
       ELSE \E connected \in BOOLEAN :
                connects' = Append(connects,
                    [addr |-> addr, attempt |-> Some(dial.v),
                     ret |-> IF connected THEN Ok("LspClient") ELSE Err("ConnectFailed")])
    /\ UNCHANGED <<rxVars, callVars, txVars>>

NextConnect == \E addr \in Addresses : new(addr)

SpecConnect == Init /\ [][NextConnect]_vars

\* The address has a scheme, the text before its first ':', and that scheme
\* is tcp or unix.
HasKnownScheme(addr) ==
    \/ StartsWith(addr, <<"t", "c", "p", ":">>)
    \/ StartsWith(addr, <<"u", "n", "i", "x", ":">>)

\* C10: LspClient::new with an address whose scheme is neither tcp nor unix,
\* or with no ':' in it at all, returns an invalid-address error and attempts
\* no connection.
C10_InvalidAddressRejected ==
    \A n \in 1..Len(connects) :
        ~HasKnownScheme(connects[n].addr)
        => /\ ~connects[n].ret.ok
           /\ connects[n].ret.err \in {"InvalidTcpAddress", "InvalidUnixPath", "UnsupportedScheme"}
           /\ connects[n].attempt = None

\* C10's case: the bare addresses "tcp" and "unix" have both been refused.
C10_Witness ==
    /\ Len(connects) = 2
    /\ connects[1].addr = T_tcp /\ ~connects[1].ret.ok /\ connects[1].attempt = None
    /\ connects[2].addr = T_unix /\ ~connects[2].ret.ok /\ connects[2].attempt = None

(***************************************************************************)
(* A session under the discipline of one request at a time: the caller     *)
(* sends a request only when every request before it has had its response  *)
(* returned by handle_response, and the server writes, for each request,   *)
(* one Response frame with that request's id; between them the server may  *)
(* write frames without an id.                                             *)
(***************************************************************************)
\* The requests (messages with an id) among the first k sends, in order.
RECURSIVE RequestsSent(_)
RequestsSent(k) ==
    IF k = 0 THEN <<>>
    ELSE IF sends[k].ret.ok /\ sends[k].request.type = "RequestMessage"
         THEN Append(RequestsSent(k - 1), sends[k].request)
         ELSE RequestsSent(k - 1)

\* How many responses handle_response has returned.
ResponsesReturned == Cardinality({n \in 1..Len(calls) : calls[n].ret.ok})

\* The ids of the Response frames the server has written.
AnswersWritten == IdsOfFrames(inbound, ResultFrames \cup {ErrorFrame})[1]

SessionRequests ==
    { new_initialize(1, 7, <<"f">>, <<"c">>, <<"1">>, <<>>),
      RequestMessage(T_v2_0, Num(2), <<"s">>, Null),
      new_initialized }

DisciplinedSend ==
    \E request \in SessionRequests :
        /\ request.type = "RequestMessage" =>
                Len(RequestsSent(Len(sends))) = ResponsesReturned
        /\ send_request(request)

\* The server answers the request that has no answer yet.
PeerAnswers ==
    /\ ~eof
    /\ peerWrites < MaxPeerWrites
    /\ Len(AnswersWritten) < Len(RequestsSent(Len(sends)))
    /\ \E f \in ResultFrames \cup {ErrorFrame} :
        /\ f.id = RequestsSent(Len(sends))[Len(AnswersWritten) + 1].id
        /\ inbound' = inbound \o f.bytes
    /\ peerWrites' = peerWrites + 1
    /\ UNCHANGED <<eof, callVars, txVars, connects>>

\* The server writes a frame that answers no request: a notification, or a
\* Response with a null id.
PeerNotifies ==
    /\ ~eof
    /\ peerWrites < MaxPeerWrites
    /\ \E b \in {BodyNotification, BodyNullId} : inbound' = inbound \o Framed(b)
    /\ peerWrites' = peerWrites + 1
    /\ UNCHANGED <<eof, callVars, txVars, connects>>

NextDiscipline ==
    \/ DisciplinedSend
    \/ PeerAnswers
    \/ PeerNotifies
    \/ PeerClose
    \/ HandleResponseCall
    \/ HandleResponseResume

SpecDiscipline == Init /\ [][NextDiscipline]_vars

\* C8: under the discipline, every response handle_response returns has the
\* id of the request sent last before the call returned.
C8_ResponseMatchesLastRequest ==
    \A n \in 1..Len(calls) :
        calls[n].ret.ok
        => /\ RequestsSent(calls[n].sent) # <<>>
           /\ calls[n].ret.v.id =
                RequestsSent(calls[n].sent)[Len(RequestsSent(calls[n].sent))].id

\* C8's case: two requests with different ids have been sent, one after the
\* other's response, and handle_response has returned a response to each.
C8_Witness ==
    /\ Len(RequestsSent(Len(sends))) = 2
    /\ RequestsSent(Len(sends))[1].id # RequestsSent(Len(sends))[2].id
    /\ ResponsesReturned = 2
    /\ calls[Len(calls)].ret.ok
    /\ calls[Len(calls)].ret.v.id = RequestsSent(Len(sends))[2].id

(***************************************************************************)
(* More properties of send_request.                                        *)
(***************************************************************************)
\* What the n-th send_request call did to the write side.
EventsOfSend(n) == SubSeq(outbound, sends[n].from + 1, sends[n].to)

\* C11: send_request is all or nothing.  With a message that cannot be
\* serialised it returns the serialisation error and writes nothing; when it
\* returns Ok it has written the whole frame, once, and flushed; and a call
\* that wrote only a part of a frame, or wrote and did not flush, returned an
\* error.
C11_SendAllOrNothing ==
    \A n \in 1..Len(sends) :
        /\ sends[n].request.type = "Unserializable"
            => /\ sends[n].ret = Err("Serialization")
               /\ EventsOfSend(n) = <<>>
        /\ sends[n].ret.ok
            => /\ sends[n].request.type # "Unserializable"
               /\ Len(EventsOfSend(n)) = 2
               /\ EventsOfSend(n)[1].op = "write"
               /\ IsFrameOf(EventsOfSend(n)[1].bytes, to_string(sends[n].request)[1])
               /\ EventsOfSend(n)[2] = [op |-> "flush"]
        /\ (sends[n].request.type # "Unserializable"
            /\ \/ \E e \in 1..Len(EventsOfSend(n)) :
                    /\ EventsOfSend(n)[e].op = "write"
                    /\ ~IsFrameOf(EventsOfSend(n)[e].bytes, to_string(sends[n].request)[1])
               \/ \A e \in 1..Len(EventsOfSend(n)) : EventsOfSend(n)[e].op # "flush")
            => sends[n].ret = Err("Io")

\* C11's case: a message that cannot be serialised was refused with nothing
\* written, and then a write_all broke off in the middle of a frame and the
\* call returned the I/O error.
C11_Witness ==
    /\ Len(sends) = 2
    /\ sends[1].request.type = "Unserializable" /\ sends[1].ret = Err("Serialization")
    /\ sends[1].from = sends[1].to
    /\ sends[2].ret = Err("Io")
    /\ Len(EventsOfSend(2)) = 1
    /\ EventsOfSend(2)[1].op = "write"
    /\ Len(EventsOfSend(2)[1].bytes) > 0
    /\ ~IsFrameOf(EventsOfSend(2)[1].bytes, to_string(sends[2].request)[1])

(***************************************************************************)
(* Errors of handle_response.                                              *)
(***************************************************************************)
\* What the n-th call read of its last frame.
SeenOfLastFrame(n) == SubSeq(inbound, calls[n].frame + 1, calls[n].end)

\* The bytes s hold a blank line.
HasTerminator(s) == \E k \in 4..Len(s) : SubSeq(s, k - 3, k) = HeaderTerminator

\* The body length the header block at the start of s declares: Some(N), or
\* None when it declares none that parses.
DeclaredLength(s) ==
    LET cl == ScanContentLength(SubSeq(s, 1, HeaderLength(s))) IN
    IF cl = None THEN None ELSE cl[1]

\* `bytes` is a run of frames handle_response reads without an error and
\* without returning: each a header block that declares a length N, and N
\* bytes that are a ResponseMessage whose id is null.
RECURSIVE DiscardedOnly(_)
DiscardedOnly(bytes) ==
    \/ bytes = <<>>
    \/ /\ HasTerminator(bytes)
       /\ DeclaredLength(bytes) # None
       /\ Len(bytes) >= HeaderLength(bytes) + DeclaredLength(bytes)[1]
       /\ from_slice(SubSeq(bytes, HeaderLength(bytes) + 1,
                            HeaderLength(bytes) + DeclaredLength(bytes)[1])) # None
       /\ from_slice(SubSeq(bytes, HeaderLength(bytes) + 1,
                            HeaderLength(bytes) + DeclaredLength(bytes)[1]))[1].id = Null
       /\ DiscardedOnly(SubSeq(bytes, HeaderLength(bytes) + DeclaredLength(bytes)[1] + 1,
                               Len(bytes)))

\* Frames and header blocks that make handle_response fail: their bytes, the
\* error, and how many of the bytes are read when the error is raised.
FailingFrames ==
    { [bytes |-> Framed(BodyNotJson), err |-> "MalformedBody", read |-> Len(Framed(BodyNotJson))],
      [bytes |-> HeadersNoLength, err |-> "MissingContentLength", read |-> Len(HeadersNoLength)],
      [bytes |-> HeadersLowerCase, err |-> "MissingContentLength", read |-> Len(HeadersLowerCase)],
      [bytes |-> HeadersLengthNotNumber, err |-> "ParseIntError", read |-> Len(HeadersLengthNotNumber)],
      [bytes |-> HeadersLengthNegative, err |-> "ParseIntError", read |-> Len(HeadersLengthNegative)] }

\* C12: an error raised while reading the header, parsing it, reading the
\* body or parsing it ends the call there and then with that error.  What a
\* call passed over before its last frame held no error, a frame that fails
\* makes the call return its error having read no byte after the point of
\* failure, and a call that failed on the end of the stream had read the
\* stream to its end.
C12_ErrorsReturnedAtOnce ==
    \A n \in 1..Len(calls) :
        /\ DiscardedOnly(SubSeq(inbound, calls[n].start + 1, calls[n].frame))
        /\ \A f \in FailingFrames :
            StartsWith(From(calls[n].frame), f.bytes)
            => /\ calls[n].ret = Err(f.err)
               /\ calls[n].end = calls[n].frame + f.read
        /\ calls[n].ret = Err("UnexpectedEof") => calls[n].end = Len(inbound)
        /\ (n = Len(calls) /\ pc = "idle") => rd = calls[n].end

\* C12's case: a call found a body that is no JSON and returned the
\* malformed-body error, the frame after it still unread; the next call
\* returned the response of that frame.
C12_Witness ==
    /\ Len(calls) = 2
    /\ calls[1].start = 0
    /\ StartsWith(inbound, Framed(BodyNotJson))
    /\ calls[1].ret = Err("MalformedBody")
    /\ calls[1].end = Len(Framed(BodyNotJson))
    /\ calls[2].start = calls[1].end
    /\ calls[2].ret.ok

(***************************************************************************)
(* Blocking of handle_response.                                            *)
(***************************************************************************)
\* The stream is open and has delivered nothing but well-formed frames
\* without an id (notifications, responses with no id member or a null one),
\* if anything at all.
OnlyIdlessDelivered == ~eof /\ IdsOfFrames(inbound, {}) # None

\* The stream is open and has delivered nothing but well-formed frames whose
\* id member is null, if anything at all.
OnlyNullIdDelivered ==
    ~eof /\ \E k \in 0..MaxPeerWrites : inbound = Repeat(Framed(BodyNullId), k)

\* C13 (as claimed): while the stream is open and has delivered only
\* well-formed frames without an id, or nothing, no handle_response call has
\* returned, neither a value nor an error.
C13_BlocksOnIdlessFrames == OnlyIdlessDelivered => calls = <<>>

\* What holds of the code: handle_response does not return while the open
\* stream has delivered only frames whose id member is null.
BlocksOnNullIdFrames == OnlyNullIdDelivered => calls = <<>>

\* A call is suspended having read every frame of an open stream that
\* delivered two frames with a null id.
BlocksOnNullIdFrames_Reached ==
    /\ OnlyNullIdDelivered /\ Len(inbound) = 2 * Len(Framed(BodyNullId))
    /\ pc = "headers" /\ rd = Len(inbound)

(***************************************************************************)
(* The messages of protocol.rs on the wire.                                *)
(***************************************************************************)
\* The body of a frame: what follows its blank line.
BodyOfFrame(bytes) == SubSeq(bytes, HeaderLength(bytes) + 1, Len(bytes))

\* The JSON text the n-th send_request call wrote as the body of its frame.
BodySent(n) == BodyOfFrame(EventsOfSend(n)[1].bytes)

\* {"jsonrpc":"2.0","method":"initialized","params":{}}
InitializedText == <<"{", "\"", "j", "s", "o", "n", "r", "p", "c", "\"", ":", "\"", "2", ".", "0", "\"", ",", "\"", "m", "e", "t", "h", "o", "d", "\"", ":", "\"", "i", "n", "i", "t", "i", "a", "l", "i", "z", "e", "d", "\"", ",", "\"", "p", "a", "r", "a", "m", "s", "\"", ":", "{", "}", "}">>

\* C14: the initialized notification goes out as exactly
\* {"jsonrpc":"2.0","method":"initialized","params":{}}, and the JSON object
\* written for any notification has no member "id".
C14_InitializedHasNoId ==
    \A n \in 1..Len(sends) :
        (sends[n].request.type = "NotificationMessage" /\ sends[n].ret.ok)
        => /\ ParseValue(BodySent(n), 1).ok
           /\ ParseValue(BodySent(n), 1).i = Len(BodySent(n)) + 1
           /\ ParseValue(BodySent(n), 1).v.t = "obj"
           /\ T_id \notin DOMAIN ParseValue(BodySent(n), 1).v.m
           /\ sends[n].request = new_initialized => BodySent(n) = InitializedText

\* C14's case: the initialized notification and another notification have
\* both been sent.
C14_Witness ==
    /\ Len(sends) = 2
    /\ sends[1].request = new_initialized /\ sends[1].ret.ok
    /\ sends[2].request.type = "NotificationMessage" /\ sends[2].ret.ok
    /\ sends[2].request # new_initialized

\* The arguments of the new_initialize calls behind the initialize requests
\* the caller sends: see SendRequests.
InitializeCalls ==
    { [id |-> 1, process_id |-> 7, root_uri |-> <<"f">>, client_name |-> <<"c">>,
       client_version |-> <<"1">>, folders |-> <<>>],
      [id |-> 2, process_id |-> 40, root_uri |-> <<"f", ":", "/">>,
       client_name |-> <<"c">> \o EAcute, client_version |-> <<"0", ".", "1">>,
       folders |-> <<[uri |-> <<"u">>, name |-> <<"n">>]>>] }

\* The request new_initialize builds from the arguments c.
InitializeRequest(c) ==
    new_initialize(c.id, c.process_id, c.root_uri, c.client_name, c.client_version,
                   [i \in 1..Len(c.folders) |-> WorkspaceFolder(c.folders[i].uri, c.folders[i].name)])

\* The member k of the JSON object v, and the keys of v.
Member(v, k) == v.m[k]
Keys(v) == IF v.t = "obj" THEN DOMAIN v.m ELSE {}

\* The JSON value caps is the capability tree new_initialize states.
IsCapabilityTree(caps) ==
    /\ Keys(caps) = {<<"w", "o", "r", "k", "s", "p", "a", "c", "e">>, <<"t", "e", "x", "t", "D", "o", "c", "u", "m", "e", "n", "t">>}
    /\ Keys(Member(caps, <<"w", "o", "r", "k", "s", "p", "a", "c", "e">>)) = {<<"w", "o", "r", "k", "s", "p", "a", "c", "e", "F", "o", "l", "d", "e", "r", "s">>, <<"d", "i", "d", "C", "h", "a", "n", "g", "e", "C", "o", "n", "f", "i", "g", "u", "r", "a", "t", "i", "o", "n">>, <<"w", "o", "r", "k", "s", "p", "a", "c", "e", "E", "d", "i", "t">>, <<"c", "o", "n", "f", "i", "g", "u", "r", "a", "t", "i", "o", "n">>}
    /\ Member(Member(caps, <<"w", "o", "r", "k", "s", "p", "a", "c", "e">>), <<"w", "o", "r", "k", "s", "p", "a", "c", "e", "F", "o", "l", "d", "e", "r", "s">>) = Bool(TRUE)
    /\ Member(Member(caps, <<"w", "o", "r", "k", "s", "p", "a", "c", "e">>), <<"d", "i", "d", "C", "h", "a", "n", "g", "e", "C", "o", "n", "f", "i", "g", "u", "r", "a", "t", "i", "o", "n">>) =
            Obj([k \in {<<"d", "y", "n", "a", "m", "i", "c", "R", "e", "g", "i", "s", "t", "r", "a", "t", "i", "o", "n">>} |-> Bool(TRUE)])
    /\ Member(Member(caps, <<"w", "o", "r", "k", "s", "p", "a", "c", "e">>), <<"w", "o", "r", "k", "s", "p", "a", "c", "e", "E", "d", "i", "t">>) =
            Obj([k \in {<<"d", "o", "c", "u", "m", "e", "n", "t", "C", "h", "a", "n", "g", "e", "s">>} |-> Bool(TRUE)])
    /\ Member(Member(caps, <<"w", "o", "r", "k", "s", "p", "a", "c", "e">>), <<"c", "o", "n", "f", "i", "g", "u", "r", "a", "t", "i", "o", "n">>) = Bool(TRUE)
    /\ Keys(Member(caps, <<"t", "e", "x", "t", "D", "o", "c", "u", "m", "e", "n", "t">>)) = {<<"h", "o", "v", "e", "r">>, <<"c", "o", "m", "p", "l", "e", "t", "i", "o", "n">>, <<"c", "o", "d", "e", "A", "c", "t", "i", "o", "n">>}
    /\ Member(Member(caps, <<"t", "e", "x", "t", "D", "o", "c", "u", "m", "e", "n", "t">>), <<"h", "o", "v", "e", "r">>) =
            Obj([k \in {<<"c", "o", "n", "t", "e", "n", "t", "F", "o", "r", "m", "a", "t">>} |-> Arr(<<Str(<<"p", "l", "a", "i", "n", "t", "e", "x", "t">>)>>)])
    /\ Member(Member(caps, <<"t", "e", "x", "t", "D", "o", "c", "u", "m", "e", "n", "t">>), <<"c", "o", "m", "p", "l", "e", "t", "i", "o", "n">>) =
            Obj([k \in {<<"c", "o", "m", "p", "l", "e", "t", "i", "o", "n", "I", "t", "e", "m">>} |->
                Obj([j \in {<<"s", "n", "i", "p", "p", "e", "t", "S", "u", "p", "p", "o", "r", "t">>} |-> Bool(TRUE)])])
    /\ Member(Member(caps, <<"t", "e", "x", "t", "D", "o", "c", "u", "m", "e", "n", "t">>), <<"c", "o", "d", "e", "A", "c", "t", "i", "o", "n">>) =
            Obj([k \in {<<"c", "o", "d", "e", "A", "c", "t", "i", "o", "n", "L", "i", "t", "e", "r", "a", "l", "S", "u", "p", "p", "o", "r", "t">>} |->
                Obj([j \in {<<"c", "o", "d", "e", "A", "c", "t", "i", "o", "n", "K", "i", "n", "d">>} |->
                    Obj([l \in {<<"v", "a", "l", "u", "e", "S", "e", "t">>} |->
                        Arr(<<Str(<<"s", "o", "u", "r", "c", "e", ".", "o", "r", "g", "a", "n", "i", "z", "e", "I", "m", "p", "o", "r", "t", "s">>),
                              Str(<<"r", "e", "f", "a", "c", "t", "o", "r", ".", "r", "e", "w", "r", "i", "t", "e">>),
                              Str(<<"r", "e", "f", "a", "c", "t", "o", "r", ".", "e", "x", "t", "r", "a", "c", "t">>)>>)])])])

\* The JSON value v is the initialize request of the arguments c.
IsInitializeOf(v, c) ==
    /\ Keys(v) = {T_jsonrpc, T_id, T_method, T_params}
    /\ Member(v, T_jsonrpc) = Str(T_v2_0)
    /\ Member(v, T_id) = Num(c.id)
    /\ Member(v, T_method) = Str(T_initialize)
    /\ Keys(Member(v, T_params)) = {<<"p", "r", "o", "c", "e", "s", "s", "I", "d">>, <<"r", "o", "o", "t", "U", "r", "i">>, <<"c", "l", "i", "e", "n", "t", "I", "n", "f", "o">>, <<"c", "a", "p", "a", "b", "i", "l", "i", "t", "i", "e", "s">>, <<"w", "o", "r", "k", "s", "p", "a", "c", "e", "F", "o", "l", "d", "e", "r", "s">>}
    /\ Member(Member(v, T_params), <<"p", "r", "o", "c", "e", "s", "s", "I", "d">>) = Num(c.process_id)
    /\ Member(Member(v, T_params), <<"r", "o", "o", "t", "U", "r", "i">>) = Str(c.root_uri)
    /\ Keys(Member(Member(v, T_params), <<"c", "l", "i", "e", "n", "t", "I", "n", "f", "o">>)) = {<<"n", "a", "m", "e">>, <<"v", "e", "r", "s", "i", "o", "n">>}
    /\ Member(Member(Member(v, T_params), <<"c", "l", "i", "e", "n", "t", "I", "n", "f", "o">>), <<"n", "a", "m", "e">>) = Str(c.client_name)
    /\ Member(Member(Member(v, T_params), <<"c", "l", "i", "e", "n", "t", "I", "n", "f", "o">>), <<"v", "e", "r", "s", "i", "o", "n">>) = Str(c.client_version)
    /\ IsCapabilityTree(Member(Member(v, T_params), <<"c", "a", "p", "a", "b", "i", "l", "i", "t", "i", "e", "s">>))
    /\ Member(Member(v, T_params), <<"w", "o", "r", "k", "s", "p", "a", "c", "e", "F", "o", "l", "d", "e", "r", "s">>).t = "arr"
    /\ Len(Member(Member(v, T_params), <<"w", "o", "r", "k", "s", "p", "a", "c", "e", "F", "o", "l", "d", "e", "r", "s">>).a) = Len(c.folders)
    /\ \A i \in 1..Len(c.folders) :
        /\ Keys(Member(Member(v, T_params), <<"w", "o", "r", "k", "s", "p", "a", "c", "e", "F", "o", "l", "d", "e", "r", "s">>).a[i]) = {<<"u", "r", "i">>, <<"n", "a", "m", "e">>}
        /\ Member(Member(Member(v, T_params), <<"w", "o", "r", "k", "s", "p", "a", "c", "e", "F", "o", "l", "d", "e", "r", "s">>).a[i], <<"u", "r", "i">>) = Str(c.folders[i].uri)
        /\ Member(Member(Member(v, T_params), <<"w", "o", "r", "k", "s", "p", "a", "c", "e", "F", "o", "l", "d", "e", "r", "s">>).a[i], <<"n", "a", "m", "e">>) = Str(c.folders[i].name)

\* C15: what send_request wrote for an initialize request built by
\* new_initialize parses back to jsonrpc "2.0", method "initialize", the id
\* and the parameters new_initialize was given, and the fixed capability
\* tree.
C15_InitializeRoundTrip ==
    \A n \in 1..Len(sends) : \A c \in InitializeCalls :
        (sends[n].request = InitializeRequest(c) /\ sends[n].ret.ok)
        => /\ ParseValue(BodySent(n), 1).ok
           /\ ParseValue(BodySent(n), 1).i = Len(BodySent(n)) + 1
           /\ IsInitializeOf(ParseValue(BodySent(n), 1).v, c)

\* C15's case: both initialize requests have been sent, the one with a
\* workspace folder and a character outside ASCII first.
C15_Witness ==
    /\ Len(sends) = 2
    /\ \E c \in InitializeCalls :
        c.id = 2 /\ sends[1].request = InitializeRequest(c) /\ sends[1].ret.ok
    /\ \E c \in InitializeCalls :
        c.id = 1 /\ sends[2].request = InitializeRequest(c) /\ sends[2].ret.ok

(***************************************************************************)
(* The end of the stream.                                                  *)
(***************************************************************************)
\* C16: a call that returned without having seen the blank line of a header
\* block, or with fewer body bytes than the header declared, returned the
\* I/O error of a stream that had ended, having read all of it; a call that
\* returned anything else after a header that declared N had read exactly N
\* body bytes.
C16_EofIsIoError ==
    \A n \in 1..Len(calls) :
        /\ ~HasTerminator(SeenOfLastFrame(n))
            => /\ calls[n].ret = Err("UnexpectedEof")
               /\ eof /\ calls[n].end = Len(inbound)
        /\ (HasTerminator(SeenOfLastFrame(n)) /\ DeclaredLength(SeenOfLastFrame(n)) # None)
            => IF Len(SeenOfLastFrame(n)) < HeaderLength(SeenOfLastFrame(n))
                                             + DeclaredLength(SeenOfLastFrame(n))[1]
               THEN /\ calls[n].ret = Err("UnexpectedEof")
                    /\ eof /\ calls[n].end = Len(inbound)
               ELSE /\ calls[n].ret # Err("UnexpectedEof")
                    /\ Len(SeenOfLastFrame(n)) = HeaderLength(SeenOfLastFrame(n))
                                                  + DeclaredLength(SeenOfLastFrame(n))[1]

\* C16's case: the stream ended three bytes short of a body, and the call
\* that had read the header and the rest of the body returned the I/O error.
C16_Witness ==
    \E n \in 1..Len(calls) :
        /\ calls[n].ret = Err("UnexpectedEof")
        /\ HasTerminator(SeenOfLastFrame(n))
        /\ DeclaredLength(SeenOfLastFrame(n)) = Some(36)
        /\ Len(SeenOfLastFrame(n)) = HeaderLength(SeenOfLastFrame(n)) + 33

(***************************************************************************)
(* The Content-Length line.                                                *)
(***************************************************************************)
\* Header blocks whose Content-Length line gives, after its first ":" and
\* trimmed, no unsigned decimal number: a letter, a negative number, nothing.
UnparsableLengths == {HeadersLengthNotNumber, HeadersLengthNegative, HeadersLengthEmpty}

\* C17: N is the trimmed text after the first ":" of the Content-Length
\* line, read as an unsigned decimal number: a call whose last frame is a
\* well-formed frame of the model ends N bytes after the header block, and
\* a call whose header block gives no such number returns the header parse
\* error having read the header block and not one body byte.
C17_LengthParsedOrMalformed ==
    \A n \in 1..Len(calls) :
        /\ \A f \in ResultFrames :
            StartsWith(From(calls[n].frame), f.bytes)
            => calls[n].end = calls[n].frame + HeaderLength(f.bytes) + f.n
        /\ \A h \in UnparsableLengths :
            StartsWith(From(calls[n].frame), h)
            => /\ calls[n].ret = Err("ParseIntError")
               /\ calls[n].end = calls[n].frame + Len(h)

\* C17's case: a call returned the header parse error on a Content-Length
\* line with nothing after the colon, the bytes after the header block
\* unread, and a call returned it on a negative length.
C17_Witness ==
    /\ pc = "idle"
    /\ Len(calls) = 2
    /\ StartsWith(From(calls[1].frame), HeadersLengthNegative)
    /\ calls[1].ret = Err("ParseIntError")
    /\ StartsWith(From(calls[2].frame), HeadersLengthEmpty \o BodyResponse1)
    /\ calls[2].ret = Err("ParseIntError")
    /\ From(rd) = BodyResponse1

(***************************************************************************)
(* More properties of LspClient::new.                                      *)
(***************************************************************************)
\* C18: the address is split at its first ':' only.  With the scheme tcp the
\* client opens a TCP connection to everything after that ':', further ':'
\* included; with the scheme unix it opens a Unix socket connection to
\* everything after it, as a path.
C18_SplitAtFirstColon ==
    \A n \in 1..Len(connects) :
        /\ StartsWith(connects[n].addr, <<"t", "c", "p", ":">>)
            => connects[n].attempt =
                Some([kind |-> "tcp",
                      target |-> SubSeq(connects[n].addr, 5, Len(connects[n].addr))])
        /\ StartsWith(connects[n].addr, <<"u", "n", "i", "x", ":">>)
            => connects[n].attempt =
                Some([kind |-> "unix",
                      target |-> SubSeq(connects[n].addr, 6, Len(connects[n].addr))])

\* C18's case: a TCP connection to "a:b:1" and a Unix socket connection to
\* the path "/a:b" have been opened.
C18_Witness ==
    /\ Len(connects) = 2
    /\ connects[1].attempt = Some([kind |-> "tcp", target |-> <<"a", ":", "b", ":", "1">>])
    /\ connects[1].ret.ok
    /\ connects[2].attempt = Some([kind |-> "unix", target |-> <<"/", "a", ":", "b">>])
    /\ connects[2].ret.ok

(***************************************************************************)
(* A session without the discipline: the caller sends requests whenever it *)
(* likes, and the server writes well-formed Response frames with an id, in *)
(* any order, each with a result or with an error.                         *)
(***************************************************************************)
PipelinedSend == \E request \in SessionRequests : send_request(request)

PeerResponds ==
    /\ ~eof
    /\ peerWrites < MaxPeerWrites
    /\ \E f \in ResultFrames \cup {ErrorFrame} : inbound' = inbound \o f.bytes
    /\ peerWrites' = peerWrites + 1
    /\ UNCHANGED <<eof, callVars, txVars, connects>>

NextPipelined ==
    \/ PipelinedSend
    \/ PeerResponds
    \/ PeerClose
    \/ HandleResponseCall
    \/ HandleResponseResume

SpecPipelined == Init /\ [][NextPipelined]_vars

\* C19 (as claimed): handle_response does not look at the ids of the
\* requests sent.  On a stream of Response frames with ids, whatever was
\* sent and in whatever order, a call returns the response of the first
\* frame it finds, with that frame's id, and the only error a call returns
\* is that of the stream's end.
C19_FirstResponseWins ==
    \A n \in 1..Len(calls) :
        /\ calls[n].frame = calls[n].start
        /\ calls[n].ret.ok \/ calls[n].ret = Err("UnexpectedEof")
        /\ \A f \in ResultFrames \cup {ErrorFrame} :
            StartsWith(From(calls[n].start), f.bytes)
            => calls[n].ret.ok /\ calls[n].ret.v.id = f.id

\* What holds of the code: the same, of the calls that find a Response frame
\* with a result; no call passes over a frame.
FirstResultResponseWins ==
    \A n \in 1..Len(calls) :
        /\ calls[n].frame = calls[n].start
        /\ \A f \in ResultFrames :
            StartsWith(From(calls[n].start), f.bytes)
            => calls[n].ret.ok /\ calls[n].ret.v.id = f.id
        /\ ~StartsWith(From(calls[n].start), ErrorFrame.bytes)
            => calls[n].ret.ok \/ calls[n].ret = Err("UnexpectedEof")

\* Two requests were sent before any call, the one with id 2 last, and the
\* first call returned the response with id 1, the first on the stream.
FirstResultResponseWins_Reached ==
    /\ Len(calls) >= 1
    /\ calls[1].sent = 2
    /\ sends[1].ret.ok /\ sends[1].request.type = "RequestMessage"
    /\ sends[1].request.id = Num(1)
    /\ sends[2].ret.ok /\ sends[2].request.type = "RequestMessage"
    /\ sends[2].request.id = Num(2)
    /\ calls[1].ret.ok /\ calls[1].ret.v.id = Num(1)

(***************************************************************************)
(* Header lines other than Content-Length.                                 *)
(***************************************************************************)
\* Frames with more header lines than the one Content-Length line, each
\* with the plain frame of the same body: a line before it, a line after it,
\* a second Content-Length line that states another length.
HeaderVariants ==
    { [bytes |-> FrameHeaderBefore, plain |-> Framed(BodyResponse1)],
      [bytes |-> FrameHeaderAfter, plain |-> Framed(BodyResponse2)],
      [bytes |-> FrameTwoLengths, plain |-> Framed(BodyResponse1)] }

\* C20: header lines other than Content-Length do not affect deframing, and
\* of several Content-Length lines the first decides.  A call whose last
\* frame has such lines reads, after the header block, exactly the body of
\* the plain frame, and returns what a call returns on the plain frame.
C20_OtherHeadersIgnored ==
    \A n \in 1..Len(calls) : \A v \in HeaderVariants :
        StartsWith(From(calls[n].frame), v.bytes)
        => /\ calls[n].end = calls[n].frame + HeaderLength(v.bytes) + Len(BodyOfFrame(v.plain))
           /\ SubSeq(inbound, calls[n].frame + HeaderLength(v.bytes) + 1, calls[n].end)
                = BodyOfFrame(v.plain)
           /\ calls[n].ret.ok
           /\ \A m \in 1..Len(calls) :
                StartsWith(From(calls[m].frame), v.plain) => calls[m].ret = calls[n].ret

\* C20's case: a call returned the response of the frame with two
\* Content-Length lines, and a call that of the plain frame of the same
\* body.
C20_Witness ==
    /\ Len(calls) = 2
    /\ StartsWith(From(calls[1].frame), FrameTwoLengths)
    /\ calls[1].ret.ok
    /\ StartsWith(From(calls[2].frame), Framed(BodyResponse1))
    /\ calls[2].ret = calls[1].ret

=============================================================================
